---- MODULE Spec2Model ----
(***************************************************************************)
(* Transaction execution state machine of go-nebulas (core/transaction.go, *)
(* core/deploy_payload.go).  One VerifyExecution call is applied to a      *)
(* world-state snapshot (a Block); the snapshot before the call, the       *)
(* transaction, the outcomes of the collaborators (account state, event    *)
(* log, engine) and everything the call returned are kept as state so that *)
(* the properties of the call can be written as state predicates.          *)
(*                                                                         *)
(* util.Uint128 is modelled with a reduced width (MaxUint128) and uint64   *)
(* with a reduced width (Uint64Bits) because TLC integers are 32 bit; the  *)
(* gas constants keep their source values.                                 *)
(***************************************************************************)
EXTENDS Integers, Sequences, FiniteSets, TLC

\* ------------------------------------------------------------------------
\* Bounds of the model
\* ------------------------------------------------------------------------

\* largest value of util.Uint128 (2^128 - 1 in the program)
MaxUint128 == 65535

\* width of uint64 / int64 (64 in the program)
Uint64Bits == 3

\* base gas reported by a call payload (a function of its content)
CallBaseGas == 2

Two64 == 2 ^ Uint64Bits
Two63 == 2 ^ (Uint64Bits - 1)

\* ------------------------------------------------------------------------
\* Program constants
\* ------------------------------------------------------------------------

MinGasCountPerTransaction == 20000
GasCountPerByte == 1

TxExecutionFailed == 0
TxExecutionSuccess == 1

TxPayloadBinaryType == "binary"
TxPayloadDeployType == "deploy"
TxPayloadCallType == "call"
TopicTransactionExecutionResult == "chain.transactionResult"

\* errors; Nil is the nil error
Nil == "nil"
ErrNilArgument == "ErrNilArgument"
ErrOutOfGasLimit == "ErrOutOfGasLimit"
ErrInsufficientBalance == "ErrInsufficientBalance"
ErrInvalidTxPayloadType == "ErrInvalidTxPayloadType"
ErrContractTransactionAddressNotEqual == "ErrContractTransactionAddressNotEqual"
ErrJSONUnmarshal == "ErrJSONUnmarshal"
ErrUint128Overflow == "ErrUint128Overflow"
ErrUint128Underflow == "ErrUint128Underflow"
ErrBalanceInsufficient == "ErrBalanceInsufficient"
ErrStorage == "ErrStorage"
ErrEngine == "ErrEngine"
ErrExecutionFailed == "ErrExecutionFailed"

\* a nil pointer is the empty sequence, a value v is <<v>>
None == <<>>
Some(v) == <<v>>

\* ------------------------------------------------------------------------
\* util.Uint128: error-returning arithmetic
\* ------------------------------------------------------------------------

Uint128Add(a, b) ==
    IF a + b > MaxUint128 THEN [err |-> ErrUint128Overflow, v |-> 0]
    ELSE [err |-> Nil, v |-> a + b]

Uint128Sub(a, b) ==
    IF a < b THEN [err |-> ErrUint128Underflow, v |-> 0]
    ELSE [err |-> Nil, v |-> a - b]

Uint128Mul(a, b) ==
    IF a * b > MaxUint128 THEN [err |-> ErrUint128Overflow, v |-> 0]
    ELSE [err |-> Nil, v |-> a * b]

\* NewUint128FromInt(int64): negative values are rejected
NewUint128FromInt(i) ==
    IF i < 0 THEN [err |-> ErrUint128Underflow, v |-> 0]
    ELSE [err |-> Nil, v |-> i]

\* Uint128.Uint64(): the low 64 bits
Uint128Uint64(a) == a % Two64

\* int64(x) of a uint64 x: two's complement reinterpretation
Int64OfUint64(u) == IF u >= Two63 THEN u - Two64 ELSE u

\* Uint128.String(): the decimal digits
RECURSIVE Uint128String(_)
Uint128String(n) ==
    IF n < 10 THEN <<n>> ELSE Append(Uint128String(n \div 10), n % 10)

\* byteutils.Hash.String(): two hex digits per byte
HexDigits == <<"0", "1", "2", "3", "4", "5", "6", "7",
               "8", "9", "a", "b", "c", "d", "e", "f">>

RECURSIVE HashString(_)
HashString(h) ==
    IF h = <<>> THEN <<>>
    ELSE <<HexDigits[(Head(h) \div 16) + 1], HexDigits[(Head(h) % 16) + 1]>>
         \o HashString(Tail(h))

\* ------------------------------------------------------------------------
\* Snapshot (Block): accounts, balances, contract accounts, event log
\* ------------------------------------------------------------------------

Addr == {"a", "b", "c"}

\* accState.GetOrCreateUserAccount: a missing account is created empty
GetOrCreateUserAccount(b, addr, fails) ==
    IF fails THEN [err |-> ErrStorage, block |-> b]
    ELSE [err |-> Nil, block |-> [b EXCEPT !.accounts = @ \cup {addr}]]

\* accState.CreateContractAccount(addr, birthPlace)
CreateContractAccount(b, addr, birthPlace, fails) ==
    IF fails THEN [err |-> ErrStorage, block |-> b]
    ELSE [err |-> Nil,
          block |-> [b EXCEPT !.contracts = @ \cup {[addr |-> addr, birthPlace |-> birthPlace]}]]

\* Account.SubBalance
SubBalance(b, addr, value) ==
    LET r == Uint128Sub(b.balance[addr], value) IN
    IF r.err # Nil THEN [err |-> ErrBalanceInsufficient, block |-> b]
    ELSE [err |-> Nil, block |-> [b EXCEPT !.balance[addr] = r.v]]

\* Account.AddBalance
AddBalance(b, addr, value) ==
    LET r == Uint128Add(b.balance[addr], value) IN
    IF r.err # Nil THEN [err |-> r.err, block |-> b]
    ELSE [err |-> Nil, block |-> [b EXCEPT !.balance[addr] = r.v]]

\* Block.Clone: an independent copy
Clone(b, fails) ==
    IF fails THEN [err |-> ErrStorage, block |-> b]
    ELSE [err |-> Nil, block |-> b]

\* Block.Merge: the child's mutations replace the parent's state
Merge(b, child) ==
    [b EXCEPT !.accounts = child.accounts, !.balance = child.balance,
              !.contracts = child.contracts, !.events = child.events]

\* Block.recordEvent: append to the event log under the transaction hash
recordEvent(b, txHash, event, fails) ==
    IF fails THEN [err |-> ErrStorage, block |-> b]
    ELSE [err |-> Nil,
          block |-> [b EXCEPT !.events = Append(@, [txHash |-> txHash, event |-> event])]]

\* ------------------------------------------------------------------------
\* Transaction: gas arithmetic, transfer, result event
\* ------------------------------------------------------------------------

\* Transaction.DataLen
DataLen(t) == t.data.Payload.len

\* Transaction.GasCountOfTxBase
GasCountOfTxBase(t) ==
    LET txGas == MinGasCountPerTransaction IN
    IF DataLen(t) > 0 THEN
        LET dataLen == NewUint128FromInt(DataLen(t)) IN
        IF dataLen.err # Nil THEN dataLen
        ELSE LET dataGas == Uint128Mul(dataLen.v, GasCountPerByte) IN
             IF dataGas.err # Nil THEN dataGas
             ELSE Uint128Add(txGas, dataGas.v)
    ELSE [err |-> Nil, v |-> txGas]

\* mutant of MinBalanceRequired: the arithmetic wraps at 128 bits
MinBalanceRequiredWraps(t) ==
    [err |-> Nil, v |-> (t.gasPrice * t.gasLimit + t.value) % (MaxUint128 + 1)]

\* Transaction.MinBalanceRequired
MinBalanceRequired(t) ==
    LET total == Uint128Mul(t.gasPrice, t.gasLimit) IN
    IF total.err # Nil THEN total
    ELSE Uint128Add(total.v, t.value)

\* Transaction.GenerateContractAddress: a hash of from and nonce
GenerateContractAddress(t) == <<t.from, t.nonce>>

\* Transaction.transfer
transfer(b, from, to, value, failFrom, failTo) ==
    LET fromAcc == GetOrCreateUserAccount(b, from, failFrom) IN
    IF fromAcc.err # Nil THEN fromAcc
    ELSE LET toAcc == GetOrCreateUserAccount(fromAcc.block, to, failTo) IN
         IF toAcc.err # Nil THEN [err |-> toAcc.err, block |-> fromAcc.block]
         ELSE LET sub == SubBalance(toAcc.block, from, value) IN
              IF sub.err # Nil THEN sub
              ELSE AddBalance(sub.block, to, value)

\* mutant of recordResultEvent: the status does not depend on the error
recordResultEventAlwaysSuccess(b, t, gasUsed, err, fails) ==
    LET txEvent == [Hash |-> HashString(t.hash),
                    Status |-> TxExecutionSuccess,
                    GasUsed |-> Uint128String(gasUsed),
                    Error |-> IF err # Nil THEN err ELSE ""]
        event == [Topic |-> TopicTransactionExecutionResult, Data |-> txEvent]
    IN recordEvent(b, t.hash, event, fails)

\* Transaction.recordResultEvent
recordResultEvent(b, t, gasUsed, err, fails) ==
    LET txEvent == [Hash |-> HashString(t.hash),
                    Status |-> IF err # Nil THEN TxExecutionFailed ELSE TxExecutionSuccess,
                    GasUsed |-> Uint128String(gasUsed),
                    Error |-> IF err # Nil THEN err ELSE ""]
        event == [Topic |-> TopicTransactionExecutionResult, Data |-> txEvent]
    IN recordEvent(b, t.hash, event, fails)

\* ------------------------------------------------------------------------
\* Payloads
\* ------------------------------------------------------------------------

\* LoadBinaryPayload: any bytes are a binary payload
LoadBinaryPayload(bytes) == [err |-> Nil, payload |-> [kind |-> TxPayloadBinaryType]]

\* LoadDeployPayload: the bytes must be a JSON object
LoadDeployPayload(bytes) ==
    IF bytes.json THEN [err |-> Nil, payload |-> [kind |-> TxPayloadDeployType]]
    ELSE [err |-> ErrJSONUnmarshal, payload |-> [kind |-> "nil"]]

\* LoadCallPayload: the bytes must be a JSON object
LoadCallPayload(bytes) ==
    IF bytes.json THEN [err |-> Nil, payload |-> [kind |-> TxPayloadCallType]]
    ELSE [err |-> ErrJSONUnmarshal, payload |-> [kind |-> "nil"]]

\* Transaction.LoadPayload
LoadPayload(t) ==
    CASE t.data.Type = TxPayloadBinaryType -> LoadBinaryPayload(t.data.Payload)
      [] t.data.Type = TxPayloadDeployType -> LoadDeployPayload(t.data.Payload)
      [] t.data.Type = TxPayloadCallType -> LoadCallPayload(t.data.Payload)
      [] OTHER -> [err |-> ErrInvalidTxPayloadType, payload |-> [kind |-> "nil"]]

\* TxPayload.BaseGasCount
BaseGasCount(payload) ==
    CASE payload.kind = TxPayloadBinaryType -> 0
      [] payload.kind = TxPayloadDeployType -> 0
      [] payload.kind = TxPayloadCallType -> CallBaseGas
      [] OTHER -> 0

\* mutant of PayloadGasLimit: the subtractions wrap at 128 bits
PayloadGasLimitWraps(t, payload) ==
    LET gasCountOfTxBase == GasCountOfTxBase(t) IN
    IF gasCountOfTxBase.err # Nil THEN gasCountOfTxBase
    ELSE [err |-> Nil,
          v |-> (t.gasLimit - gasCountOfTxBase.v - BaseGasCount(payload))
                    % (MaxUint128 + 1)]

\* Transaction.PayloadGasLimit
PayloadGasLimit(t, payload) ==
    LET gasCountOfTxBase == GasCountOfTxBase(t) IN
    IF gasCountOfTxBase.err # Nil THEN gasCountOfTxBase
    ELSE LET l1 == Uint128Sub(t.gasLimit, gasCountOfTxBase.v) IN
         IF l1.err # Nil THEN [err |-> ErrOutOfGasLimit, v |-> 0]
         ELSE LET l2 == Uint128Sub(l1.v, BaseGasCount(payload)) IN
              IF l2.err # Nil THEN [err |-> ErrOutOfGasLimit, v |-> 0]
              ELSE l2

\* the result string DeployAndInitEngine returns
EngineResult == "result"

\* result of Execute: gas consumed, result string, error, the snapshot it ran
\* on, the number of engines created and disposed, and the instruction limit
\* set (if any)
ExecResult(gas, result, err, b, created, disposed, limit) ==
    [gas |-> gas, result |-> result, err |-> err, block |-> b, created |-> created,
     disposed |-> disposed, limit |-> limit]

\* mutant of the engine part of Execute: DisposeEngine is not deferred, it is
\* called only after the instruction count has been read
DeployRunEngineDisposesLate(b, payloadGasLimit, e) ==
    LET limit == Some(Uint128Uint64(payloadGasLimit)) IN
    IF e.fault = "createEngine" THEN ExecResult(0, "", ErrEngine, b, 0, 0, None)
    ELSE IF e.fault = "setLimits" THEN ExecResult(0, "", ErrEngine, b, 1, 0, None)
    ELSE IF e.fault = "readInstructions" THEN ExecResult(0, "", ErrEngine, b, 1, 0, limit)
         ELSE LET instructions == NewUint128FromInt(Int64OfUint64(e.count)) IN
              IF instructions.err # Nil THEN ExecResult(0, "", instructions.err, b, 1, 1, limit)
              ELSE ExecResult(instructions.v, EngineResult, e.exeErr, b, 1, 1, limit)

\* DeployPayload.Execute, from engine creation to the return
\* (the deferred DisposeEngine runs on every return after CreateEngine)
DeployRunEngine(b, payloadGasLimit, e) ==
    LET limit == Some(Uint128Uint64(payloadGasLimit)) IN
    IF e.fault = "createEngine" THEN ExecResult(0, "", ErrEngine, b, 0, 0, None)
    ELSE IF e.fault = "setLimits" THEN ExecResult(0, "", ErrEngine, b, 1, 1, None)
    ELSE \* DeployAndInitEngine returns (result, exeErr) = e.exeErr;
         \* ExecutionInstructions returns (gasCout, err) = e.count
         IF e.fault = "readInstructions" THEN ExecResult(0, "", ErrEngine, b, 1, 1, limit)
         ELSE LET instructions == NewUint128FromInt(Int64OfUint64(e.count)) IN
              IF instructions.err # Nil THEN ExecResult(0, "", instructions.err, b, 1, 1, limit)
              ELSE ExecResult(instructions.v, EngineResult, e.exeErr, b, 1, 1, limit)

\* mutant of DeployPayload.Execute: the payload gas limit is checked before the
\* addresses are compared
DeployPayloadExecuteGasFirst(b, t, payload, e) ==
    LET payloadGasLimit == PayloadGasLimit(t, payload) IN
    IF payloadGasLimit.err # Nil THEN ExecResult(0, "", payloadGasLimit.err, b, 0, 0, None)
    ELSE IF payloadGasLimit.v <= 0 THEN ExecResult(0, "", ErrOutOfGasLimit, b, 0, 0, None)
    ELSE IF t.from # t.to
    THEN ExecResult(0, "", ErrContractTransactionAddressNotEqual, b, 0, 0, None)
    ELSE LET addr == GenerateContractAddress(t)
             owner == GetOrCreateUserAccount(b, t.from, e.fault = "ownerAcc")
         IN
         IF owner.err # Nil THEN ExecResult(0, "", owner.err, b, 0, 0, None)
         ELSE LET contract == CreateContractAccount(owner.block, addr, t.hash,
                                                    e.fault = "createContract") IN
              IF contract.err # Nil THEN ExecResult(0, "", contract.err, owner.block, 0, 0, None)
              ELSE DeployRunEngine(contract.block, payloadGasLimit.v, e)

\* DeployPayload.Execute
DeployPayloadExecute(b, t, payload, e) ==
    IF t.from # t.to THEN ExecResult(0, "", ErrContractTransactionAddressNotEqual, b, 0, 0, None)
    ELSE LET payloadGasLimit == PayloadGasLimit(t, payload) IN
         IF payloadGasLimit.err # Nil THEN ExecResult(0, "", payloadGasLimit.err, b, 0, 0, None)
         ELSE IF payloadGasLimit.v <= 0 THEN ExecResult(0, "", ErrOutOfGasLimit, b, 0, 0, None)
         ELSE LET addr == GenerateContractAddress(t)
                  owner == GetOrCreateUserAccount(b, t.from, e.fault = "ownerAcc")
              IN
              IF owner.err # Nil THEN ExecResult(0, "", owner.err, b, 0, 0, None)
              ELSE LET contract == CreateContractAccount(owner.block, addr, t.hash,
                                                         e.fault = "createContract") IN
                   IF contract.err # Nil THEN ExecResult(0, "", contract.err, owner.block, 0, 0, None)
                   ELSE DeployRunEngine(contract.block, payloadGasLimit.v, e)

\* BinaryPayload.Execute: nothing to execute
BinaryPayloadExecute(b, t, payload, e) == ExecResult(0, "", Nil, b, 0, 0, None)

\* CallPayload.Execute: same engine protocol as deploy, no account is created
CallPayloadExecute(b, t, payload, e) ==
    LET payloadGasLimit == PayloadGasLimit(t, payload) IN
    IF payloadGasLimit.err # Nil THEN ExecResult(0, "", payloadGasLimit.err, b, 0, 0, None)
    ELSE IF payloadGasLimit.v <= 0 THEN ExecResult(0, "", ErrOutOfGasLimit, b, 0, 0, None)
    ELSE DeployRunEngine(b, payloadGasLimit.v, e)

\* TxPayload.Execute: dispatch on the payload variant
Execute(b, t, payload, e) ==
    CASE payload.kind = TxPayloadDeployType -> DeployPayloadExecute(b, t, payload, e)
      [] payload.kind = TxPayloadCallType -> CallPayloadExecute(b, t, payload, e)
      [] OTHER -> BinaryPayloadExecute(b, t, payload, e)

\* ------------------------------------------------------------------------
\* Transaction.VerifyExecution
\* ------------------------------------------------------------------------

\* local variables of VerifyExecution at the time it returns; executeErr is
\* the error Execute returned, exeErr the same variable after the gas clamp
Locals(b) ==
    [gasUsed |-> 0, payloadErr |-> Nil, exeErr |-> Nil, executeErr |-> Nil,
     gasExecution |-> 0,
     executed |-> FALSE, merged |-> FALSE, txBlock |-> b,
     created |-> 0, disposed |-> 0, limit |-> None]

\* what a call returns: the branch it returned from, (gas, err), the outer
\* snapshot as the call left it, and the locals
Return(path, gas, err, b, loc) ==
    [path |-> path, gas |-> gas, err |-> err, block |-> b, loc |-> loc]

\* mutant of step8: the execution error of the payload is returned
ConsumeGasReturnsExeErr(b, t, e, loc) ==
    LET gas == Uint128Mul(t.gasPrice, loc.gasUsed) IN
    IF gas.err # Nil THEN Return("execute", None, gas.err, b, loc)
    ELSE LET fee == transfer(b, t.from, b.coinbase, gas.v,
                             e.fault = "feeFromAcc", e.fault = "feeToAcc") IN
         IF fee.err # Nil THEN Return("execute", None, fee.err, fee.block, loc)
         ELSE LET rec == recordResultEvent(fee.block, t, gas.v, loc.exeErr,
                                           e.fault = "recordEvent") IN
              IF rec.err # Nil THEN Return("execute", None, rec.err, rec.block, loc)
              ELSE Return("execute", Some(loc.gasUsed), loc.exeErr, rec.block, loc)

\* step8: consume gas, record the result event, return (lines 523-550)
ConsumeGas(b, t, e, loc) ==
    LET gas == Uint128Mul(t.gasPrice, loc.gasUsed) IN
    IF gas.err # Nil THEN Return("execute", None, gas.err, b, loc)
    ELSE LET fee == transfer(b, t.from, b.coinbase, gas.v,
                             e.fault = "feeFromAcc", e.fault = "feeToAcc") IN
         IF fee.err # Nil THEN Return("execute", None, fee.err, fee.block, loc)
         ELSE LET rec == recordResultEvent(fee.block, t, gas.v, loc.exeErr,
                                           e.fault = "recordEvent") IN
              IF rec.err # Nil THEN Return("execute", None, rec.err, rec.block, loc)
              ELSE Return("execute", Some(loc.gasUsed), Nil, rec.block, loc)

\* mutant of the merge: the child is merged whatever the execution error
MergeAlways(b, t, e, loc) ==
    ConsumeGas(Merge(b, loc.txBlock), t, e, [loc EXCEPT !.merged = TRUE])

\* only execute success, merge the state to use (lines 518-521)
MergeOnSuccess(b, t, e, loc) ==
    IF loc.exeErr = Nil
    THEN ConsumeGas(Merge(b, loc.txBlock), t, e, [loc EXCEPT !.merged = TRUE])
    ELSE ConsumeGas(b, t, e, loc)

\* mutant of step7: gas is clamped but a success reported by the payload stands
GasClampKeepsSuccess(b, t, e, loc) ==
    LET gasUsed == Uint128Add(loc.gasUsed, loc.gasExecution) IN
    IF gasUsed.err # Nil THEN Return("execute", None, gasUsed.err, b, loc)
    ELSE IF t.gasLimit < gasUsed.v
         THEN MergeOnSuccess(b, t, e, [loc EXCEPT !.gasUsed = t.gasLimit])
         ELSE MergeOnSuccess(b, t, e, [loc EXCEPT !.gasUsed = gasUsed.v])

\* step7: gas + gasExecution, clamped to the gas limit (lines 506-516)
GasClamp(b, t, e, loc) ==
    LET gasUsed == Uint128Add(loc.gasUsed, loc.gasExecution) IN
    IF gasUsed.err # Nil THEN Return("execute", None, gasUsed.err, b, loc)
    ELSE IF t.gasLimit < gasUsed.v
         THEN MergeOnSuccess(b, t, e, [loc EXCEPT !.gasUsed = t.gasLimit,
                                                  !.exeErr = ErrOutOfGasLimit])
         ELSE MergeOnSuccess(b, t, e, [loc EXCEPT !.gasUsed = gasUsed.v])

\* step6: execute the payload on the child snapshot (lines 502-504)
ExecutePayload(b, t, e, payload, loc) ==
    LET exec == Execute(loc.txBlock, t, payload, e) IN
    GasClamp(b, t, e, [loc EXCEPT !.executed = TRUE, !.gasExecution = exec.gas,
                                  !.exeErr = exec.err, !.executeErr = exec.err,
                                  !.txBlock = exec.block,
                                  !.created = exec.created, !.disposed = exec.disposed,
                                  !.limit = exec.limit])

\* mutant of step5: the payload is executed on the clone without the value
\* having been transferred
TransferValueSkipped(b, t, e, payload, loc) ==
    LET txBlock == Clone(b, e.fault = "clone") IN
    IF txBlock.err # Nil THEN Return("transfer", Some(0), txBlock.err, b, loc)
    ELSE ExecutePayload(b, t, e, payload, [loc EXCEPT !.txBlock = txBlock.block])

\* step5: transfer tx value on a clone of the snapshot (lines 491-500)
TransferValue(b, t, e, payload, loc) ==
    LET txBlock == Clone(b, e.fault = "clone") IN
    IF txBlock.err # Nil THEN Return("transfer", Some(0), txBlock.err, b, loc)
    ELSE LET tr == transfer(txBlock.block, t.from, t.to, t.value,
                            e.fault = "valueFromAcc", e.fault = "valueToAcc") IN
         IF tr.err # Nil
         THEN Return("transfer", None, tr.err, b, [loc EXCEPT !.txBlock = tr.block])
         ELSE ExecutePayload(b, t, e, payload, [loc EXCEPT !.txBlock = tr.block])

\* mutant of step4: only the gas accrued so far is charged, not the limit
PayloadGasCheckChargesAccrued(b, t, e, payload, loc) ==
    LET gasUsed == Uint128Add(loc.gasUsed, BaseGasCount(payload)) IN
    IF gasUsed.err # Nil THEN Return("payloadGas", None, gasUsed.err, b, loc)
    ELSE LET loc1 == [loc EXCEPT !.gasUsed = gasUsed.v] IN
         IF t.gasLimit < gasUsed.v THEN
             LET gas == Uint128Mul(t.gasPrice, loc.gasUsed) IN
             IF gas.err # Nil THEN Return("payloadGas", None, gas.err, b, loc1)
             ELSE LET fee == transfer(b, t.from, b.coinbase, gas.v,
                                      e.fault = "feeFromAcc", e.fault = "feeToAcc") IN
                  IF fee.err # Nil THEN Return("payloadGas", None, fee.err, fee.block, loc1)
                  ELSE LET rec == recordResultEvent(fee.block, t, t.gasLimit, ErrOutOfGasLimit,
                                                    e.fault = "recordEvent") IN
                       IF rec.err # Nil
                       THEN Return("payloadGas", None, rec.err, rec.block, loc1)
                       ELSE Return("payloadGas", Some(t.gasLimit), Nil, rec.block, loc1)
         ELSE TransferValue(b, t, e, payload, loc1)

\* step4: check gasLimit >= gas + payload.BaseGasCount (lines 464-489)
PayloadGasCheck(b, t, e, payload, loc) ==
    LET gasUsed == Uint128Add(loc.gasUsed, BaseGasCount(payload)) IN
    IF gasUsed.err # Nil THEN Return("payloadGas", None, gasUsed.err, b, loc)
    ELSE LET loc1 == [loc EXCEPT !.gasUsed = gasUsed.v] IN
         IF t.gasLimit < gasUsed.v THEN
             LET gas == Uint128Mul(t.gasPrice, t.gasLimit) IN
             IF gas.err # Nil THEN Return("payloadGas", None, gas.err, b, loc1)
             ELSE LET fee == transfer(b, t.from, b.coinbase, gas.v,
                                      e.fault = "feeFromAcc", e.fault = "feeToAcc") IN
                  IF fee.err # Nil THEN Return("payloadGas", None, fee.err, fee.block, loc1)
                  ELSE LET rec == recordResultEvent(fee.block, t, t.gasLimit, ErrOutOfGasLimit,
                                                    e.fault = "recordEvent") IN
                       IF rec.err # Nil
                       THEN Return("payloadGas", None, rec.err, rec.block, loc1)
                       ELSE Return("payloadGas", Some(t.gasLimit), Nil, rec.block, loc1)
         ELSE TransferValue(b, t, e, payload, loc1)

\* mutant of step3: an undecodable payload is charged the whole gas limit
PayloadDecodeChargesLimit(b, t, e, loc) ==
    LET pl == LoadPayload(t) IN
    IF pl.err # Nil THEN
        LET loc1 == [loc EXCEPT !.payloadErr = pl.err]
            gas == Uint128Mul(t.gasPrice, t.gasLimit)
        IN
        IF gas.err # Nil THEN Return("decode", None, gas.err, b, loc1)
        ELSE LET fee == transfer(b, t.from, b.coinbase, gas.v,
                                 e.fault = "feeFromAcc", e.fault = "feeToAcc") IN
             IF fee.err # Nil THEN Return("decode", None, fee.err, fee.block, loc1)
             ELSE LET rec == recordResultEvent(fee.block, t, loc.gasUsed, pl.err,
                                               e.fault = "recordEvent") IN
                  IF rec.err # Nil THEN Return("decode", None, rec.err, rec.block, loc1)
                  ELSE Return("decode", Some(loc.gasUsed), Nil, rec.block, loc1)
    ELSE PayloadGasCheck(b, t, e, pl.payload, loc)

\* step3: check payload valid (lines 440-462)
PayloadDecode(b, t, e, loc) ==
    LET pl == LoadPayload(t) IN
    IF pl.err # Nil THEN
        LET loc1 == [loc EXCEPT !.payloadErr = pl.err]
            gas == Uint128Mul(t.gasPrice, loc.gasUsed)
        IN
        IF gas.err # Nil THEN Return("decode", None, gas.err, b, loc1)
        ELSE LET fee == transfer(b, t.from, b.coinbase, gas.v,
                                 e.fault = "feeFromAcc", e.fault = "feeToAcc") IN
             IF fee.err # Nil THEN Return("decode", None, fee.err, fee.block, loc1)
             ELSE LET rec == recordResultEvent(fee.block, t, loc.gasUsed, pl.err,
                                               e.fault = "recordEvent") IN
                  IF rec.err # Nil THEN Return("decode", None, rec.err, rec.block, loc1)
                  ELSE Return("decode", Some(loc.gasUsed), Nil, rec.block, loc1)
    ELSE PayloadGasCheck(b, t, e, pl.payload, loc)

\* mutant of step2: the balance is compared with the value alone, the gas
\* the transaction may consume is not counted
BalanceCheckIgnoresGas(b, t, e, loc) ==
    LET minBalanceRequired == MinBalanceRequired(t) IN
    IF minBalanceRequired.err # Nil
    THEN Return("balance", None, minBalanceRequired.err, b, loc)
    ELSE LET fromAcc == GetOrCreateUserAccount(b, t.from, e.fault = "getFromAcc") IN
         IF fromAcc.err # Nil THEN Return("balance", None, fromAcc.err, b, loc)
         ELSE IF fromAcc.block.balance[t.from] < t.value
              THEN Return("balance", None, ErrInsufficientBalance, fromAcc.block,
                          [loc EXCEPT !.txBlock = fromAcc.block])
              ELSE PayloadDecode(fromAcc.block, t, e,
                                 [loc EXCEPT !.txBlock = fromAcc.block])

\* step2: check balance >= gasLimit * gasPrice + tx.value (lines 419-438)
BalanceCheck(b, t, e, loc) ==
    LET minBalanceRequired == MinBalanceRequired(t) IN
    IF minBalanceRequired.err # Nil
    THEN Return("balance", None, minBalanceRequired.err, b, loc)
    ELSE LET fromAcc == GetOrCreateUserAccount(b, t.from, e.fault = "getFromAcc") IN
         IF fromAcc.err # Nil THEN Return("balance", None, fromAcc.err, b, loc)
         ELSE IF fromAcc.block.balance[t.from] < minBalanceRequired.v
              THEN Return("balance", None, ErrInsufficientBalance, fromAcc.block,
                          [loc EXCEPT !.txBlock = fromAcc.block])
              ELSE PayloadDecode(fromAcc.block, t, e,
                                 [loc EXCEPT !.txBlock = fromAcc.block])

\* mutant of step1: the gas limit is not compared with the base gas
BaseGasCheckSkipped(b, t, e, loc) ==
    LET gasUsed == GasCountOfTxBase(t) IN
    IF gasUsed.err # Nil THEN Return("baseGas", None, gasUsed.err, b, loc)
    ELSE BalanceCheck(b, t, e, [loc EXCEPT !.gasUsed = gasUsed.v])

\* step1: check gasLimit >= GasCountOfTxBase (lines 404-417)
BaseGasCheck(b, t, e, loc) ==
    LET gasUsed == GasCountOfTxBase(t) IN
    IF gasUsed.err # Nil THEN Return("baseGas", None, gasUsed.err, b, loc)
    ELSE IF t.gasLimit < gasUsed.v
         THEN Return("baseGas", None, ErrOutOfGasLimit, b, loc)
         ELSE BalanceCheck(b, t, e, [loc EXCEPT !.gasUsed = gasUsed.v])

\* mutant of VerifyExecution: the balance is checked before the base gas
VerifyExecutionBalanceFirst(b, t, e) ==
    IF e.fault = "nilBlock" THEN Return("nil", None, ErrNilArgument, b, Locals(b))
    ELSE LET minBalanceRequired == MinBalanceRequired(t) IN
         IF minBalanceRequired.err # Nil
         THEN Return("balance", None, minBalanceRequired.err, b, Locals(b))
         ELSE LET fromAcc == GetOrCreateUserAccount(b, t.from, e.fault = "getFromAcc") IN
              IF fromAcc.err # Nil THEN Return("balance", None, fromAcc.err, b, Locals(b))
              ELSE IF fromAcc.block.balance[t.from] < minBalanceRequired.v
                   THEN Return("balance", None, ErrInsufficientBalance, fromAcc.block,
                               Locals(fromAcc.block))
                   ELSE BaseGasCheck(fromAcc.block, t, e, Locals(fromAcc.block))

\* Transaction.VerifyExecution(block); a nil block is the fault "nilBlock"
VerifyExecution(b, t, e) ==
    IF e.fault = "nilBlock" THEN Return("nil", None, ErrNilArgument, b, Locals(b))
    ELSE BaseGasCheck(b, t, e, Locals(b))

\* ------------------------------------------------------------------------
\* State machine: one VerifyExecution call on a snapshot
\* ------------------------------------------------------------------------

VARIABLES
    pc,     \* "ready" before the call, "returned" after it
    block,  \* the outer snapshot
    pre,    \* the outer snapshot as it was before the call
    tx,     \* the transaction of the call
    env,    \* what the collaborators did during the call
    out     \* what the call returned (Return)

vars == <<pc, block, pre, tx, env, out>>

\* the fee recipient of the snapshot
Coinbase == "c"

\* balances of the accounts of a snapshot before the call
InitBalances == {MinGasCountPerTransaction + 4, MaxUint128}

\* snapshots of a chain: every address either has no account (balance 0)
\* or an account with one of the balances above
SnapshotsWith(A) ==
    {[accounts |-> A, balance |-> bal, contracts |-> {}, events |-> <<>>,
      coinbase |-> Coinbase] :
        bal \in {f \in [Addr -> InitBalances \cup {0}] :
                    \A x \in Addr : f[x] = 0 <=> x \notin A}}

Snapshots == UNION {SnapshotsWith(A) : A \in SUBSET Addr}

Senders == {"a", "c"}
Values == {0, 2}
GasPrices == {0, 1, 4}
GasLimits == {MinGasCountPerTransaction, MinGasCountPerTransaction + 2,
              MinGasCountPerTransaction + 3, MaxUint128}
PayloadTypes == {TxPayloadBinaryType, TxPayloadDeployType, TxPayloadCallType, "bogus"}
\* payload bytes: their length and whether they are a JSON object
PayloadBytes == {[len |-> 0, json |-> FALSE], [len |-> 2, json |-> TRUE]}
Hashes == {<<171>>}
Nonces == {1}

Transactions ==
    [hash : Hashes, from : Senders, to : Addr, value : Values, nonce : Nonces,
     data : [Type : PayloadTypes, Payload : PayloadBytes],
     gasPrice : GasPrices, gasLimit : GasLimits]

\* at most one collaborator call fails per VerifyExecution call
CoreFaults == {"none", "nilBlock", "getFromAcc", "clone", "valueFromAcc", "valueToAcc",
               "feeFromAcc", "feeToAcc", "recordEvent"}
EngineFaults == {"ownerAcc", "createContract", "createEngine", "setLimits",
                 "readInstructions"}
\* the faults that leave the engine's report to be read by VerifyExecution
LateFaults == {"none", "feeFromAcc", "feeToAcc", "recordEvent"}

\* instruction counts the engine reports, and the error of DeployAndInit
EngineCounts == {1, 2, Two63}
EngineErrors == {Nil, ErrExecutionFailed}

\* a transaction reaches the engine only with a decodable deploy or call payload
UsesEngine(t) ==
    /\ t.data.Type \in {TxPayloadDeployType, TxPayloadCallType}
    /\ t.data.Payload.json

\* the engine's report is enumerated where the call can read it
Environments(t) ==
    IF UsesEngine(t)
    THEN [fault : LateFaults, count : EngineCounts, exeErr : EngineErrors]
         \cup [fault : (CoreFaults \cup EngineFaults) \ LateFaults,
               count : {1}, exeErr : {Nil}]
    ELSE [fault : CoreFaults, count : {0}, exeErr : {Nil}]

Init ==
    /\ pc = "ready"
    /\ block \in Snapshots
    /\ pre = block
    /\ tx = <<>>
    /\ env = <<>>
    /\ out = <<>>

\* a caller runs tx.VerifyExecution(block)
CallVerifyExecution ==
    /\ pc = "ready"
    /\ \E t \in Transactions : \E e \in Environments(t) :
        LET r == VerifyExecution(block, t, e) IN
        /\ tx' = t
        /\ env' = e
        /\ out' = r
        /\ block' = r.block
    /\ pre' = block
    /\ pc' = "returned"

Next == CallVerifyExecution

Spec == Init /\ [][Next]_vars

\* ------------------------------------------------------------------------
\* Vocabulary of the properties
\* ------------------------------------------------------------------------

\* the call has returned and was made on a snapshot (not on a nil block)
OnSnapshot == pc = "returned" /\ env.fault # "nilBlock"

\* base gas + payload length * per-byte cost
TxBaseGas == MinGasCountPerTransaction + tx.data.Payload.len * GasCountPerByte

\* gas_price * gas_limit + value, as a mathematical integer
MinRequired == tx.gasPrice * tx.gasLimit + tx.value

\* the call got past the base-gas check and the balance check
PassesAdmission ==
    /\ OnSnapshot
    /\ tx.gasLimit >= TxBaseGas
    /\ MinRequired <= MaxUint128
    /\ env.fault # "getFromAcc"
    /\ pre.balance[tx.from] >= MinRequired

\* the payload cannot be decoded: unknown type tag, or deploy/call bytes
\* that are not a JSON object
Undecodable ==
    \/ tx.data.Type \notin {TxPayloadBinaryType, TxPayloadDeployType, TxPayloadCallType}
    \/ /\ tx.data.Type \in {TxPayloadDeployType, TxPayloadCallType}
       /\ ~tx.data.Payload.json

\* base gas of the decoded payload
PayloadBaseGas == IF tx.data.Type = TxPayloadCallType THEN CallBaseGas ELSE 0

\* balances after amt moved from one account to another
Move(bal, from, to, amt) ==
    [x \in Addr |-> bal[x] - (IF x = from THEN amt ELSE 0) + (IF x = to THEN amt ELSE 0)]

\* exactly one result event for the transaction was appended to the log
OneEventAppended ==
    /\ Len(block.events) = Len(pre.events) + 1
    /\ SubSeq(block.events, 1, Len(pre.events)) = pre.events
    /\ block.events[Len(block.events)].txHash = tx.hash
    /\ block.events[Len(block.events)].event.Topic = TopicTransactionExecutionResult

LastEvent == block.events[Len(block.events)].event.Data

\* the fee transfer or the event log fails: an account lookup fails, the
\* credit of fee to the coinbase balance in bal overflows, or the event cannot
\* be recorded
FeeSettlementFails(bal, fee) ==
    \/ env.fault \in {"feeFromAcc", "feeToAcc", "recordEvent"}
    \/ /\ tx.from # Coinbase
       /\ bal[Coinbase] + fee > MaxUint128

\* the result event of the call is a failure event carrying err
FailureEvent(err) ==
    /\ OneEventAppended
    /\ LastEvent.Hash = HashString(tx.hash)
    /\ LastEvent.Status = TxExecutionFailed
    /\ LastEvent.Error = err

\* the gas the payload execution brought the running total to
RunningGas == TxBaseGas + PayloadBaseGas + out.loc.gasExecution

\* the error LoadPayload reports for an undecodable payload
DecodeError ==
    IF tx.data.Type \in {TxPayloadDeployType, TxPayloadCallType}
    THEN ErrJSONUnmarshal ELSE ErrInvalidTxPayloadType

\* ------------------------------------------------------------------------
\* Properties
\* ------------------------------------------------------------------------

\* C2: if gas_limit < GasCountOfTxBase, VerifyExecution returns OutOfGasLimit
\* and the outer snapshot is unchanged: no balance change, no fee, no account
\* created, no event recorded.
C2_BaseGasRejectsUntouched ==
    (OnSnapshot /\ tx.gasLimit < TxBaseGas) =>
        /\ out.err = ErrOutOfGasLimit
        /\ out.gas = None
        /\ block = pre

\* C2 witness: rejected for base gas although the sender has no account yet
\* and could pay (the later steps would have created it and charged a fee)
C2_Witness ==
    /\ OnSnapshot
    /\ tx.gasLimit < TxBaseGas
    /\ out.err = ErrOutOfGasLimit
    /\ tx.from \notin pre.accounts
    /\ tx.gasPrice = 0
    /\ Undecodable

\* the fee amounts VerifyExecution can charge: price * gas accrued, price * limit
FeeCandidates == {0, tx.gasPrice * out.loc.gasUsed, tx.gasPrice * tx.gasLimit}

\* the event log is the one before the call, or has one more event
EventsSameOrOneMore ==
    \/ block.events = pre.events
    \/ OneEventAppended

\* C1: after every VerifyExecution call, whatever it returned, the outer
\* snapshot (balances, contract accounts, event log) is either the fully
\* applied state (value moved from sender to recipient, payload effects
\* merged, fee moved from sender to coinbase) or the pre-call state except for
\* the fee transfer and the result event; no partially applied state is
\* reachable.
C1_FullyAppliedOrUntouched ==
    OnSnapshot =>
        \/ /\ \E fee \in FeeCandidates :
                 block.balance = Move(Move(pre.balance, tx.from, tx.to, tx.value),
                                      tx.from, Coinbase, fee)
           /\ block.contracts = out.loc.txBlock.contracts
           /\ EventsSameOrOneMore
        \/ /\ \E fee \in FeeCandidates :
                 block.balance = Move(pre.balance, tx.from, Coinbase, fee)
           /\ block.contracts = pre.contracts
           /\ EventsSameOrOneMore

\* C3: if the sender's balance is below gas_price * gas_limit + value,
\* VerifyExecution returns InsufficientBalance and leaves the outer snapshot
\* unchanged: balances, event log and the set of accounts (a sender that had
\* no account still has none).  Stated for calls in which no collaborator
\* fails.
C3_InsufficientBalanceUntouched ==
    (/\ OnSnapshot
     /\ env.fault = "none"
     /\ tx.gasLimit >= TxBaseGas
     /\ MinRequired <= MaxUint128
     /\ pre.balance[tx.from] < MinRequired) =>
        /\ out.err = ErrInsufficientBalance
        /\ block = pre

\* C10: whenever VerifyExecution returns a non-nil error, the outer snapshot
\* has no new result event and no balance differs from the pre-call state.
C10_ErrorLeavesNoFeeNoEvent ==
    (OnSnapshot /\ out.err # Nil) =>
        /\ block.events = pre.events
        /\ block.balance = pre.balance

\* what C4 says of an undecodable payload: the fee price * base gas moved
\* from sender to coinbase and nothing else, one failure event with gas-used
\* base gas, (base gas, nil) returned
C4_Effects ==
    /\ out.err = Nil
    /\ out.gas = Some(TxBaseGas)
    /\ block.balance = Move(pre.balance, tx.from, Coinbase, tx.gasPrice * TxBaseGas)
    /\ block.contracts = pre.contracts
    /\ FailureEvent(DecodeError)
    /\ LastEvent.GasUsed = Uint128String(TxBaseGas)

C5_Effects ==
    /\ out.err = Nil
    /\ out.gas = Some(tx.gasLimit)
    /\ block.balance = Move(pre.balance, tx.from, Coinbase, tx.gasPrice * tx.gasLimit)
    /\ block.contracts = pre.contracts
    /\ FailureEvent(ErrOutOfGasLimit)
    /\ ~out.loc.executed

\* the transaction passes admission, decodes, and its payload base gas does
\* not fit in the limit
C5_Case ==
    /\ PassesAdmission
    /\ ~Undecodable
    /\ TxBaseGas + PayloadBaseGas > tx.gasLimit

C6_Case ==
    /\ OnSnapshot
    /\ out.loc.executed
    /\ RunningGas > tx.gasLimit

\* the part of C6 that holds however the call ends: forced OutOfGasLimit, the
\* child is not merged
C6_Discarded ==
    /\ out.loc.gasUsed = tx.gasLimit
    /\ out.loc.exeErr = ErrOutOfGasLimit
    /\ ~out.loc.merged
    /\ block.contracts = pre.contracts

\* what C6 says of the outcome: gas_used = limit returned, balances differ
\* from the pre-call state only by the fee price * limit, failure event
C6_Effects ==
    /\ out.err = Nil
    /\ out.gas = Some(tx.gasLimit)
    /\ block.balance = Move(pre.balance, tx.from, Coinbase, tx.gasPrice * tx.gasLimit)
    /\ FailureEvent(ErrOutOfGasLimit)

C7_ChildVisibleIffNoExecError ==
    (OnSnapshot /\ out.loc.executed) =>
        LET child == out.loc.txBlock
            fee == tx.gasPrice * out.loc.gasUsed
            FeeOutcomes(bal) == {bal, [bal EXCEPT ![tx.from] = @ - fee],
                                 Move(bal, tx.from, Coinbase, fee)}
        IN IF out.loc.exeErr = Nil
           THEN /\ block.contracts = child.contracts
                /\ child.accounts \subseteq block.accounts
                /\ block.balance \in FeeOutcomes(child.balance)
                /\ child.balance = Move(pre.balance, tx.from, tx.to, tx.value)
           ELSE /\ block.contracts = pre.contracts
                /\ block.accounts \subseteq pre.accounts \cup {tx.from, Coinbase}
                /\ block.balance \in FeeOutcomes(pre.balance)

\* C7 witness: the child holds a new contract account and a new recipient
\* account, the execution failed, and the call returned normally
C7_Witness ==
    /\ OnSnapshot /\ out.loc.executed
    /\ out.err = Nil
    /\ out.loc.exeErr # Nil
    /\ out.loc.txBlock.contracts # pre.contracts
    /\ tx.value > 0

\* the gas a call that executed its payload uses
C8_GasUsed == IF RunningGas > tx.gasLimit THEN tx.gasLimit ELSE RunningGas

\* the balances the fee is charged on: with the value moved iff the execution
\* succeeded within the limit
C8_Settled ==
    IF out.loc.executeErr = Nil /\ RunningGas <= tx.gasLimit
    THEN Move(pre.balance, tx.from, tx.to, tx.value)
    ELSE pre.balance

\* what C8 says: the fee price * gas_used moved from sender to coinbase,
\* (gas_used, nil) returned
C8_Effects ==
    /\ out.err = Nil
    /\ out.gas = Some(C8_GasUsed)
    /\ block.balance = Move(C8_Settled, tx.from, Coinbase, tx.gasPrice * C8_GasUsed)

C9_OneResultEvent ==
    (OnSnapshot /\ out.err = Nil) =>
        /\ OneEventAppended
        /\ LastEvent.Hash = HashString(tx.hash)
        /\ LastEvent.Status \in {TxExecutionSuccess, TxExecutionFailed}
        /\ LastEvent.Status = TxExecutionSuccess <=>
               /\ out.loc.executed
               /\ out.loc.executeErr = Nil
               /\ RunningGas <= tx.gasLimit

\* C9 witness: a failed engine run, recorded as one failure event
C9_Witness ==
    /\ OnSnapshot /\ out.err = Nil
    /\ out.loc.executed
    /\ out.loc.executeErr = ErrExecutionFailed
    /\ Len(block.events) = 1
    /\ LastEvent.Status = TxExecutionFailed

\* an infrastructure error arose inside payload execution: an account lookup,
\* the contract-account creation, the engine creation, the execution limit or
\* the instruction count failed
InfrastructureExecError ==
    /\ OnSnapshot
    /\ out.loc.executed
    /\ env.fault \in EngineFaults
    /\ out.loc.executeErr \in {ErrStorage, ErrEngine}

\* C11: an infrastructure error that arises inside payload execution is never
\* turned by VerifyExecution into a recorded failure event with a fee charge.
C11_InfrastructureErrorNotRecorded ==
    InfrastructureExecError =>
        ~(/\ FailureEvent(out.loc.executeErr)
          /\ tx.gasPrice * out.loc.gasUsed > 0
          /\ block.balance = Move(pre.balance, tx.from, Coinbase,
                                  tx.gasPrice * out.loc.gasUsed))

\* ------------------------------------------------------------------------
\* Transaction.LocalExecution
\* ------------------------------------------------------------------------

\* a snapshot with its open nested scopes: the state, and the states saved by
\* the begin calls that are not yet committed or rolled back
Scoped(b) == [state |-> b, saved |-> <<>>]

\* Block.begin: open a nested scope
begin(tb) == [tb EXCEPT !.saved = Append(@, tb.state)]

\* Block.rollback: discard the mutations of the innermost scope and close it
rollback(tb) ==
    [state |-> tb.saved[Len(tb.saved)],
     saved |-> SubSeq(tb.saved, 1, Len(tb.saved) - 1)]

\* what LocalExecution returns: (gas, result, err), the snapshot passed in as
\* the call left it, the clone after the deferred rollback, the clone's state
\* just before that rollback, and the report of Execute (when it was called)
LocalReturn(gas, result, err, b, txBlock, dirty, exec) ==
    [gas |-> gas, result |-> result, err |-> err, block |-> b,
     txBlock |-> txBlock, dirty |-> dirty, exec |-> exec]

\* what LocalExecution's body hands to its deferred rollback: (gas, result,
\* err), the clone, and the report of Execute (when it was called)
LocalResult(gas, result, err, tb, exec) ==
    [gas |-> gas, result |-> result, err |-> err, tb |-> tb, exec |-> exec]

\* LocalExecution from the return of payload.Execute on (lines 389-395)
LocalAddExecutionGas(tb, gasUsed, exec) ==
    LET total == Uint128Add(gasUsed, exec.gas) IN
    LocalResult(IF total.err # Nil THEN None ELSE Some(total.v),
                exec.result,
                IF total.err # Nil THEN total.err ELSE exec.err,
                [tb EXCEPT !.state = exec.block],
                Some(exec))

\* LocalExecution from the base gas to payload.Execute (lines 379-389)
LocalExecutePayload(tb, t, e, payload) ==
    LET base == GasCountOfTxBase(t) IN
    IF base.err # Nil THEN LocalResult(None, "", base.err, tb, None)
    ELSE LET gasUsed == Uint128Add(base.v, BaseGasCount(payload)) IN
         IF gasUsed.err # Nil THEN LocalResult(None, "", gasUsed.err, tb, None)
         ELSE LocalAddExecutionGas(tb, gasUsed.v, Execute(tb.state, t, payload, e))

\* LocalExecution between txBlock.begin() and the return (lines 374-395)
LocalExecutionBody(tb, t, e) ==
    LET payload == LoadPayload(t) IN
    IF payload.err # Nil THEN LocalResult(None, "", payload.err, tb, None)
    ELSE LocalExecutePayload(tb, t, e, payload.payload)

\* mutant of LocalReturnDeferred: the rollback is not deferred, it runs only
\* before the return that follows a payload execution without error
LocalReturnRollbackNotDeferred(b, r) ==
    LocalReturn(r.gas, r.result, r.err, b,
                Some(IF r.err = Nil THEN rollback(r.tb) ELSE r.tb),
                Some(r.tb.state), r.exec)

\* the return of LocalExecution after txBlock.begin(): the deferred
\* txBlock.rollback() runs on every return (lines 374-375)
LocalReturnDeferred(b, r) ==
    LocalReturn(r.gas, r.result, r.err, b, Some(rollback(r.tb)),
                Some(r.tb.state), r.exec)

\* Transaction.LocalExecution
LocalExecution(b, t, e) ==
    IF e.fault = "nilBlock"
    THEN LocalReturn(None, "", ErrNilArgument, b, None, None, None)
    ELSE LET txBlock == Clone(b, e.fault = "clone") IN
         IF txBlock.err # Nil
         THEN LocalReturn(None, "", txBlock.err, b, None, None, None)
         ELSE LocalReturnDeferred(b, LocalExecutionBody(begin(Scoped(txBlock.block)), t, e))

\* LocalExecution reads neither the value nor the gas price
LocalTransactions == {t \in Transactions : t.value = 0 /\ t.gasPrice = 1}

\* at most one collaborator call fails per LocalExecution call
LocalFaults == {"nilBlock", "clone"}

LocalEnvironments(t) ==
    IF UsesEngine(t)
    THEN [fault : {"none"}, count : EngineCounts, exeErr : EngineErrors]
         \cup [fault : LocalFaults \cup EngineFaults, count : {1}, exeErr : {Nil}]
    ELSE [fault : LocalFaults \cup {"none"}, count : {0}, exeErr : {Nil}]

\* a caller runs tx.LocalExecution(block)
CallLocalExecution ==
    /\ pc = "ready"
    /\ \E t \in LocalTransactions : \E e \in LocalEnvironments(t) :
        LET r == LocalExecution(block, t, e) IN
        /\ tx' = t
        /\ env' = e
        /\ out' = r
        /\ block' = r.block
    /\ pre' = block
    /\ pc' = "returned"

NextLocal == CallLocalExecution

SpecLocal == Init /\ [][NextLocal]_vars

\* the call ran on a snapshot (the block argument was not nil)
LocalOnSnapshot == pc = "returned" /\ env.fault # "nilBlock"

\* C12: after any LocalExecution call, on every exit path, the snapshot passed
\* in has exactly the balances, accounts and event log it had before the call,
\* and the nested scope begun on the clone has been rolled back.
C12_LocalExecutionHasNoEffect ==
    LocalOnSnapshot =>
        /\ block = pre
        /\ out.txBlock # None => out.txBlock[1] = Scoped(pre)

\* a deploy ran to success on the clone and created its contract account there
C12_Witness ==
    /\ LocalOnSnapshot
    /\ out.err = Nil
    /\ out.dirty # None
    /\ out.dirty[1].contracts # {}
    /\ out.result = EngineResult

\* a binary-payload transaction that passes both admission checks
C13_Case == PassesAdmission /\ tx.data.Type = TxPayloadBinaryType

\* the balances after the value moved from sender to recipient
C13_ValueMoved == Move(pre.balance, tx.from, tx.to, tx.value)

\* what C13 says: value moved, gas_used = GasCountOfTxBase returned, the fee
\* gas_price * gas_used moved to the coinbase, exactly one success event
C13_Effects ==
    /\ out.err = Nil
    /\ out.gas = Some(TxBaseGas)
    /\ block.balance = Move(C13_ValueMoved, tx.from, Coinbase, tx.gasPrice * TxBaseGas)
    /\ block.contracts = pre.contracts
    /\ OneEventAppended
    /\ LastEvent.Hash = HashString(tx.hash)
    /\ LastEvent.Status = TxExecutionSuccess
    /\ LastEvent.Error = ""

\* the snapshot cannot be cloned, or the value transfer fails: an account
\* lookup fails or the credit to the recipient overflows
C13_ValueTransferFails ==
    \/ env.fault \in {"clone", "valueFromAcc", "valueToAcc"}
    \/ /\ tx.to # tx.from
       /\ pre.balance[tx.to] + tx.value > MaxUint128

C14_Case ==
    /\ OnSnapshot
    /\ tx.data.Type = TxPayloadDeployType
    /\ tx.data.Payload.json
    /\ TxBaseGas > tx.gasLimit
    /\ MinRequired <= MaxUint128
    /\ pre.balance[tx.from] >= MinRequired

\* C14 as stated: such a transaction fails at the payload-gas check: the fee
\* gas_price * gas_limit is charged to the sender, a failure event recording
\* OutOfGasLimit is written, and no contract account is created.
C14_ChargedAtPayloadGasCheck ==
    C14_Case =>
        /\ out.path = "payloadGas"
        /\ block.balance = Move(pre.balance, tx.from, Coinbase, tx.gasPrice * tx.gasLimit)
        /\ FailureEvent(ErrOutOfGasLimit)
        /\ block.contracts = pre.contracts

\* C14 amended: such a transaction is rejected at the base-gas check:
\* VerifyExecution returns OutOfGasLimit, no fee is charged, no event is
\* written and no contract account is created.
C14_RejectedAtBaseGasCheck ==
    C14_Case =>
        /\ out.path = "baseGas"
        /\ out.err = ErrOutOfGasLimit
        /\ block = pre

\* C14 witness: the rejected deploy offered a positive gas price
C14_Witness ==
    /\ C14_Case
    /\ out.err = ErrOutOfGasLimit
    /\ tx.gasPrice > 0
    /\ tx.from = tx.to

\* ------------------------------------------------------------------------
\* Transaction.Sign, Transaction.VerifyIntegrity, HashTransaction
\* ------------------------------------------------------------------------

ErrInvalidChainID == "ErrInvalidChainID"
ErrInvalidTransactionHash == "ErrInvalidTransactionHash"
ErrInvalidTransactionSigner == "ErrInvalidTransactionSigner"
\* errors of the keystore and of the signature scheme
ErrKeystore == "ErrKeystore"
ErrUnsupportedAlgorithm == "ErrUnsupportedAlgorithm"
ErrRecoverPublic == "ErrRecoverPublic"

\* hash.Sha3256 of a sequence of byte strings: collision free, so a digest is
\* equal to another iff the hashed sequences are equal
Sha3256(parts) == <<"sha3256", parts>>

\* HashTransaction: the digest of the nine hashed fields; hash, alg and sign
\* are not hashed
HashTransaction(t) ==
    Sha3256(<<t.from, t.to, t.value, t.nonce, t.timestamp, t.data, t.chainID,
              t.gasPrice, t.gasLimit>>)

\* keys of the keystore and the address derived from each public key;
\* "other" is a public key recovered from a signature over another digest
Keys == {"ka", "kc"}
NewAddressFromPublicKey(pub) ==
    CASE pub = "ka" -> "a"
      [] pub = "kc" -> "c"
      [] OTHER -> "none"

\* the algorithm of the keystore's signatures, and an algorithm not supported
SECP256K1 == 1
UnknownAlg == 0

\* keystore.Signature.Sign: a signature binds a key to a digest
SignatureSign(key, hash) == [key |-> key, hash |-> hash, wellFormed |-> TRUE]

\* the signature field of a transaction that is not signed
NoSign == [key |-> "", hash |-> <<>>, wellFormed |-> FALSE]

\* Signature.RecoverPublic(hash, sign): the signing key when sign was made over
\* hash, an unrelated key when it was made over another digest, an error when
\* it is not a signature at all
RecoverPublic(hash, sign) ==
    IF ~sign.wellFormed THEN [err |-> ErrRecoverPublic, pub |-> ""]
    ELSE IF sign.hash = hash THEN [err |-> Nil, pub |-> sign.key]
    ELSE [err |-> Nil, pub |-> "other"]

\* Transaction.Sign(signature): signature is None (nil) or Some(key)
Sign(t, signature, fails) ==
    IF signature = None THEN [err |-> ErrNilArgument, tx |-> t]
    ELSE LET hash == HashTransaction(t) IN
         IF fails THEN [err |-> ErrKeystore, tx |-> t]
         ELSE [err |-> Nil,
               tx |-> [t EXCEPT !.hash = hash, !.alg = SECP256K1,
                                !.sign = SignatureSign(signature[1], hash)]]

\* Transaction.verifySign
verifySign(t) ==
    IF t.alg # SECP256K1 THEN ErrUnsupportedAlgorithm
    ELSE LET pub == RecoverPublic(t.hash, t.sign) IN
         IF pub.err # Nil THEN pub.err
         ELSE IF t.from # NewAddressFromPublicKey(pub.pub)
              THEN ErrInvalidTransactionSigner
              ELSE Nil

\* mutant of VerifyIntegrity: the stored hash is not compared with the
\* recomputed one
VerifyIntegritySkipsHash(t, chainID) ==
    IF t.chainID # chainID THEN ErrInvalidChainID
    ELSE verifySign(t)

\* Transaction.VerifyIntegrity(chainID)
VerifyIntegrity(t, chainID) ==
    IF t.chainID # chainID THEN ErrInvalidChainID
    ELSE LET wantedHash == HashTransaction(t) IN
         IF wantedHash # t.hash THEN ErrInvalidTransactionHash
         ELSE verifySign(t)

\* the fields of a transaction that a holder of the record can change, and the
\* values each can take
HashedFields == {"from", "to", "value", "nonce", "timestamp", "data", "chainID",
                 "gasPrice", "gasLimit"}
TxFields == HashedFields \cup {"hash", "alg", "sign"}

ChainIDs == {1, 2}

SignData == [Type : {TxPayloadBinaryType}, Payload : PayloadBytes]

\* transactions as NewTransaction builds them: not signed
UnsignedTransactions ==
    [from : Senders, to : {"b"}, value : {0}, nonce : Nonces, timestamp : {0},
     data : {[Type |-> TxPayloadBinaryType, Payload |-> [len |-> 0, json |-> FALSE]]},
     chainID : ChainIDs, gasPrice : {1}, gasLimit : {MinGasCountPerTransaction},
     hash : {<<>>}, alg : {UnknownAlg}, sign : {NoSign}]

\* the values a field can be changed to
FieldValues(t, f) ==
    CASE f = "from" -> Senders
      [] f = "to" -> Addr
      [] f = "value" -> Values
      [] f = "nonce" -> Nonces \cup {2}
      [] f = "timestamp" -> {0, 1}
      [] f = "data" -> SignData
      [] f = "chainID" -> ChainIDs
      [] f = "gasPrice" -> GasPrices
      [] f = "gasLimit" -> GasLimits
      [] f = "hash" -> {HashTransaction([t EXCEPT !.nonce = n]) : n \in Nonces \cup {2}}
      [] f = "alg" -> {SECP256K1, UnknownAlg}
      [] f = "sign" -> {SignatureSign(k, h) : k \in Keys,
                            h \in {t.hash, HashTransaction([t EXCEPT !.nonce = 2])}}
                       \cup {NoSign}

\* the state of the signing life cycle: nothing done yet
InitSign ==
    /\ pc = "ready"
    /\ block \in SnapshotsWith({})
    /\ pre = block
    /\ tx \in UnsignedTransactions
    /\ env = [signer |-> "", mutated |-> "none", chainID |-> 0]
    /\ out = [err |-> Nil]

\* a caller runs tx.Sign(signature)
CallSign ==
    /\ pc = "ready"
    /\ \E signature \in {None} \cup {Some(k) : k \in Keys} : \E fails \in BOOLEAN :
        LET r == Sign(tx, signature, fails) IN
        /\ tx' = r.tx
        /\ out' = [err |-> r.err]
        /\ pc' = IF r.err = Nil THEN "signed" ELSE "unsigned"
        /\ env' = [env EXCEPT !.signer = IF r.err = Nil THEN signature[1] ELSE ""]
    /\ UNCHANGED <<block, pre>>

\* a holder of the signed transaction changes one of its fields
MutateField ==
    /\ pc = "signed"
    /\ \E f \in TxFields : \E v \in FieldValues(tx, f) \ {tx[f]} :
        /\ tx' = [tx EXCEPT ![f] = v]
        /\ env' = [env EXCEPT !.mutated = f]
    /\ pc' = "mutated"
    /\ UNCHANGED <<block, pre, out>>

\* a caller runs tx.VerifyIntegrity(chainID)
CallVerifyIntegrity ==
    /\ pc \in {"signed", "mutated"}
    /\ \E c \in ChainIDs :
        /\ out' = [err |-> VerifyIntegrity(tx, c)]
        /\ env' = [env EXCEPT !.chainID = c]
    /\ pc' = "verified"
    /\ UNCHANGED <<block, pre, tx>>

NextSign == CallSign \/ MutateField \/ CallVerifyIntegrity

SpecSign == InitSign /\ [][NextSign]_vars

\* VerifyIntegrity returned on a transaction that was signed
Verified == pc = "verified"

\* C15 as stated: after Sign, VerifyIntegrity(C) succeeds iff the chain id,
\* the stored hash and the signature are all unmodified and the chain id
\* equals C; mutating any single field makes it fail with exactly one of
\* InvalidTransactionHash or InvalidTransactionSigner.
C15_IntegrityAsStated ==
    Verified =>
        /\ out.err = Nil <=> /\ env.mutated \notin {"chainID", "hash", "sign"}
                             /\ tx.chainID = env.chainID
        /\ env.mutated \in HashedFields \cup {"hash", "sign"} =>
               out.err \in {ErrInvalidTransactionHash, ErrInvalidTransactionSigner}

\* the signature field is a signature over the stored hash by a key whose
\* address is the sender
SignedBySender ==
    /\ tx.sign.wellFormed
    /\ tx.sign.hash = tx.hash
    /\ NewAddressFromPublicKey(tx.sign.key) = tx.from

\* C15 amended: VerifyIntegrity(C) succeeds iff the chain id equals C, the
\* stored hash is the hash of the nine hashed fields, the algorithm is
\* supported and the signature is one over the stored hash by the sender's
\* key; in particular it succeeds after Sign by the sender's key when nothing
\* is modified. It fails with InvalidChainID whenever the chain id differs
\* from C; otherwise a single mutated hashed field or stored hash gives
\* InvalidTransactionHash, and a signature that is not the sender's over the
\* stored hash gives InvalidTransactionSigner or the error of the public-key
\* recovery.
C15_IntegrityByField ==
    Verified =>
        /\ out.err = Nil <=> /\ tx.chainID = env.chainID
                             /\ tx.hash = HashTransaction(tx)
                             /\ tx.alg = SECP256K1
                             /\ SignedBySender
        /\ (/\ env.mutated = "none"
            /\ NewAddressFromPublicKey(env.signer) = tx.from
            /\ tx.chainID = env.chainID) => out.err = Nil
        /\ tx.chainID # env.chainID => out.err = ErrInvalidChainID
        /\ (tx.chainID = env.chainID /\ env.mutated \in HashedFields \cup {"hash"})
               => out.err = ErrInvalidTransactionHash
        /\ (tx.chainID = env.chainID /\ env.mutated \in {"none", "sign"}
               /\ ~SignedBySender)
               => out.err \in {ErrInvalidTransactionSigner, ErrRecoverPublic}

\* C15 witness: the value of a transaction signed by its sender was changed
\* and VerifyIntegrity, run for the transaction's chain, rejected the hash
C15_Witness ==
    /\ Verified
    /\ env.mutated = "value"
    /\ NewAddressFromPublicKey(env.signer) = tx.from
    /\ tx.chainID = env.chainID
    /\ out.err = ErrInvalidTransactionHash

\* LocalExecution called DeployPayload.Execute on the clone
DeployExecuted ==
    /\ LocalOnSnapshot
    /\ out.exec # None
    /\ tx.data.Type = TxPayloadDeployType

\* Execute reported zero gas and no result, and left the clone as it was
\* cloned: no account, no contract account, no engine
C16_NothingTouched ==
    /\ out.exec[1].gas = 0
    /\ out.exec[1].result = ""
    /\ out.exec[1].created = 0
    /\ out.exec[1].limit = None
    /\ out.dirty[1] = pre

\* C16: DeployPayload.Execute checks its preconditions in order and before any
\* state is touched: if from differs from to it returns
\* ContractTransactionAddressNotEqual, otherwise if the payload gas limit is
\* not strictly positive (or would be negative) it returns OutOfGasLimit; in
\* both cases it reports zero gas, creates no contract account and no engine.
C16_PreconditionsInOrder ==
    DeployExecuted =>
        /\ tx.from # tx.to =>
               /\ out.exec[1].err = ErrContractTransactionAddressNotEqual
               /\ C16_NothingTouched
        /\ (tx.from = tx.to /\ tx.gasLimit - TxBaseGas <= 0) =>
               /\ out.exec[1].err = ErrOutOfGasLimit
               /\ C16_NothingTouched

\* C16 witness: a deploy that fails both preconditions was refused for its
\* addresses
C16_Witness ==
    /\ DeployExecuted
    /\ tx.from # tx.to
    /\ tx.gasLimit - TxBaseGas < 0
    /\ out.err = ErrContractTransactionAddressNotEqual

\* DeployPayload.Execute got as far as creating the engine, and created it
EngineCreated ==
    /\ tx.from = tx.to
    /\ tx.gasLimit - TxBaseGas > 0
    /\ env.fault \notin {"ownerAcc", "createContract", "createEngine"}

\* C17: in DeployPayload.Execute every successful engine creation is followed
\* by exactly one engine disposal before Execute returns, on every exit path
\* (failure to set the execution limit, deploy-and-init error, failure to read
\* the instruction count, success), and the engine is never disposed when it
\* was not created.
C17_EngineDisposedIffCreated ==
    DeployExecuted =>
        /\ out.exec[1].created = (IF EngineCreated THEN 1 ELSE 0)
        /\ out.exec[1].disposed = out.exec[1].created

\* C17 witness: the engine was created, the execution limit could not be set,
\* and the engine was disposed
C17_Witness ==
    /\ DeployExecuted
    /\ env.fault = "setLimits"
    /\ out.err = ErrEngine
    /\ out.exec[1].created = 1
    /\ out.exec[1].disposed = 1

\* C18: MinBalanceRequired returns gas_price * gas_limit + value when that
\* fits in 128 bits and an arithmetic error, never a wrapped value, when
\* the product or the sum overflows; VerifyExecution then returns that error
\* and leaves the snapshot as it was.
C18_MinBalanceRequiredExact ==
    OnSnapshot =>
        IF MinRequired <= MaxUint128
        THEN MinBalanceRequired(tx) = [err |-> Nil, v |-> MinRequired]
        ELSE /\ MinBalanceRequired(tx).err = ErrUint128Overflow
             /\ tx.gasLimit >= TxBaseGas =>
                    /\ out.path = "balance"
                    /\ out.err = ErrUint128Overflow
                    /\ out.gas = None
                    /\ block = pre

\* C18 witness: the product fits and the sum overflows, on a snapshot where
\* the sender has an account, and VerifyExecution returned the overflow
C18_Witness ==
    /\ OnSnapshot
    /\ tx.gasPrice * tx.gasLimit <= MaxUint128
    /\ MinRequired > MaxUint128
    /\ tx.from \in pre.accounts
    /\ out.err = ErrUint128Overflow

\* gas_limit - GasCountOfTxBase - payload.BaseGasCount(), as a mathematical
\* integer
C19_Remaining == tx.gasLimit - TxBaseGas - PayloadBaseGas

\* LocalExecution decoded the payload of the transaction
LocalDecoded == LocalOnSnapshot /\ env.fault # "clone" /\ ~Undecodable

\* C19: PayloadGasLimit returns gas_limit - GasCountOfTxBase -
\* payload.BaseGasCount() whenever that value is non-negative and fails with
\* OutOfGasLimit whenever either subtraction would go below zero; it never
\* returns a wrapped value. Execute, which calls it for deploy and call
\* payloads, then returns OutOfGasLimit.
C19_PayloadGasLimitExact ==
    LocalDecoded =>
        LET limit == PayloadGasLimit(tx, LoadPayload(tx).payload) IN
        IF C19_Remaining >= 0
        THEN limit = [err |-> Nil, v |-> C19_Remaining]
        ELSE /\ limit.err = ErrOutOfGasLimit
             /\ (UsesEngine(tx) /\ (tx.data.Type = TxPayloadCallType \/ tx.from = tx.to))
                    => out.err = ErrOutOfGasLimit /\ out.exec[1].created = 0

\* C19 witness: the first subtraction is non-negative, the second goes below
\* zero, and the execution was refused
C19_Witness ==
    /\ LocalDecoded
    /\ tx.gasLimit - TxBaseGas >= 0
    /\ C19_Remaining < 0
    /\ out.err = ErrOutOfGasLimit

\* the transaction fails the base-gas check
FailsBaseGasCheck == tx.gasLimit < TxBaseGas

\* the transaction fails the balance check: the sender's balance is below
\* gas_price * gas_limit + value
FailsBalanceCheck ==
    /\ MinRequired <= MaxUint128
    /\ env.fault # "getFromAcc"
    /\ pre.balance[tx.from] < MinRequired

\* no fee was charged and no event recorded
NoFeeNoEvent ==
    /\ block.balance = pre.balance
    /\ block.events = pre.events
    /\ block.contracts = pre.contracts

\* the call reached the value transfer (step 5)
ReachedValueTransfer == out.path \in {"transfer", "execute"}

\* C20: VerifyExecution evaluates its checks in strict sequence and stops at
\* the first failing one: a transaction that fails both the base-gas check and
\* the balance check returns OutOfGasLimit; a transaction with an undecodable
\* payload that also fails an admission check gets the admission error with no
\* fee charged; the value transfer and the payload execution happen only after
\* all four checks pass.
C20_ChecksInSequence ==
    OnSnapshot =>
        /\ (FailsBaseGasCheck /\ FailsBalanceCheck) =>
               out.err = ErrOutOfGasLimit /\ out.path = "baseGas"
        /\ (Undecodable /\ FailsBaseGasCheck) =>
               out.err = ErrOutOfGasLimit /\ NoFeeNoEvent
        /\ (Undecodable /\ ~FailsBaseGasCheck /\ FailsBalanceCheck) =>
               out.err = ErrInsufficientBalance /\ NoFeeNoEvent
        /\ (ReachedValueTransfer \/ out.loc.executed) =>
               /\ PassesAdmission
               /\ ~Undecodable
               /\ tx.gasLimit >= TxBaseGas + PayloadBaseGas
        /\ out.loc.executed => out.path = "execute"

\* C20 witness: a transaction that fails the base-gas check and the balance
\* check and has an undecodable payload was refused for its gas limit
C20_Witness ==
    /\ OnSnapshot
    /\ FailsBaseGasCheck /\ FailsBalanceCheck /\ Undecodable
    /\ tx.gasPrice > 0
    /\ out.err = ErrOutOfGasLimit

\* DeployPayload.Execute imposed an instruction limit on the engine
LimitImposed == DeployExecuted /\ out.exec[1].limit # None

\* DeployPayload.Execute read the instruction count back from the engine
CountRead == LimitImposed /\ env.fault # "readInstructions"

\* C21: the instruction limit imposed on the engine by DeployPayload.Execute
\* equals the computed PayloadGasLimit and is strictly positive, for every
\* 128-bit gas_limit, and the instruction count read back from the engine is
\* returned unchanged as the gas consumed by execution.
C21_LimitAndCountUnaltered ==
    /\ LimitImposed =>
           /\ out.exec[1].limit = Some(C19_Remaining)
           /\ out.exec[1].limit[1] > 0
    /\ CountRead => out.exec[1].gas = env.count

\* C22: on every path where VerifyExecution records a result event, the
\* gas_used written in the event equals the gas_used that VerifyExecution
\* returns for the transaction (gas, not the fee gas_price * gas_used).
C22_EventGasIsReturnedGas ==
    (OnSnapshot /\ out.err = Nil /\ OneEventAppended) =>
        LastEvent.GasUsed = Uint128String(out.gas[1])

\* C23: whenever VerifyExecution returns (gas_used, nil), GasCountOfTxBase <=
\* gas_used <= gas_limit; once the balance check has passed, the fee transfer
\* from the sender never fails for insufficient balance and no balance goes
\* below zero, also when sender, recipient and coinbase coincide.
C23_GasBoundedFeeCovered ==
    OnSnapshot =>
        /\ out.err = Nil =>
               /\ out.gas # None
               /\ TxBaseGas <= out.gas[1]
               /\ out.gas[1] <= tx.gasLimit
        /\ out.err # ErrBalanceInsufficient
        /\ \A x \in Addr : block.balance[x] >= 0 /\ out.loc.txBlock.balance[x] >= 0

\* C23 witness: the execution overran the gas limit and the whole limit was
\* charged to a sender who is also the recipient and the coinbase
C23_Witness ==
    /\ OnSnapshot
    /\ out.err = Nil
    /\ out.loc.executed
    /\ RunningGas > tx.gasLimit
    /\ out.gas = Some(tx.gasLimit)
    /\ tx.gasPrice > 0
    /\ tx.from = Coinbase /\ tx.to = Coinbase

\* ------------------------------------------------------------------------
\* State machine: a sequence of VerifyExecution calls on one snapshot
\* ------------------------------------------------------------------------

\* the longest sequence of calls explored
MaxCalls == 2

\* binary transactions without data, at the least gas limit
SeqTransactions ==
    {t \in Transactions : /\ t.data.Type = TxPayloadBinaryType
                          /\ t.data.Payload.len = 0
                          /\ t.gasLimit = MinGasCountPerTransaction
                          /\ t.gasPrice \in {0, 1}}

\* at most one collaborator call fails per call of the sequence
SeqEnvironments ==
    [fault : CoreFaults \ {"nilBlock"}, count : {0}, exeErr : {Nil}, calls : 1..MaxCalls]

\* the sum of the balances of the accounts in S
RECURSIVE SumBalances(_, _)
SumBalances(bal, S) ==
    IF S = {} THEN 0
    ELSE LET x == CHOOSE y \in S : TRUE IN bal[x] + SumBalances(bal, S \ {x})

\* the sum of all account balances of a snapshot
TotalBalance(b) == SumBalances(b.balance, Addr)

\* the snapshot before the sequence: every address has an account
InitSeq ==
    /\ pc = "ready"
    /\ block \in SnapshotsWith(Addr)
    /\ pre = block
    /\ tx = <<>>
    /\ env = [fault |-> "none", count |-> 0, exeErr |-> Nil, calls |-> 0]
    /\ out = <<>>

\* a caller runs the next tx.VerifyExecution(block) of the sequence
CallVerifyExecutionInSequence ==
    /\ env.calls < MaxCalls
    /\ \E t \in SeqTransactions : \E e \in SeqEnvironments :
        /\ e.calls = env.calls + 1
        /\ tx' = t
        /\ env' = e
        /\ out' = VerifyExecution(block, t, e)
        /\ block' = out'.block
    /\ pc' = "returned"
    /\ UNCHANGED pre

NextSeq == CallVerifyExecutionInSequence

SpecSeq == InitSeq /\ [][NextSeq]_vars

\* C24: after any sequence of VerifyExecution calls with binary payloads on
\* one snapshot, the sum of all account balances equals the sum before the
\* sequence, for every outcome of each call and also when sender equals
\* recipient or sender equals coinbase.
C24_TotalBalanceConserved ==
    TotalBalance(block) = TotalBalance(pre)

\* ------------------------------------------------------------------------
\* NewGenesisBlock
\* ------------------------------------------------------------------------

\* the longest token distribution explored
MaxEntries == 2

\* Block.commit: keep the mutations of the innermost scope and close it
commit(tb) == [tb EXCEPT !.saved = SubSeq(@, 1, Len(@) - 1)]

ErrInvalidAddress == "ErrInvalidAddress"
ErrUint128InvalidString == "ErrUint128InvalidString"

\* characters of a decimal string: the digits 0..9 as themselves, NotADigit
\* for any other character
NotADigit == 10

\* AddressParse: the strings that are addresses
AddressParse(str) ==
    IF str \in Addr THEN [err |-> Nil, addr |-> str]
    ELSE [err |-> ErrInvalidAddress, addr |-> str]

\* the number a sequence of digits denotes
RECURSIVE DecimalValue(_)
DecimalValue(str) ==
    IF str = <<>> THEN 0
    ELSE DecimalValue(SubSeq(str, 1, Len(str) - 1)) * 10 + str[Len(str)]

\* util.NewUint128FromString: a decimal string of at most 128 bits
NewUint128FromString(str) ==
    IF str = <<>> \/ \E i \in 1..Len(str) : str[i] = NotADigit
    THEN [err |-> ErrUint128InvalidString, v |-> 0]
    ELSE IF DecimalValue(str) > MaxUint128
         THEN [err |-> ErrUint128Overflow, v |-> 0]
         ELSE [err |-> Nil, v |-> DecimalValue(str)]

\* the genesis block under construction: its state with the open scopes,
\* the sealed flag, and the begin / rollback / commit calls made on it
GenesisBlock(tb, sealed, begins, rollbacks, commits) ==
    [tb |-> tb, sealed |-> sealed, begins |-> begins, rollbacks |-> rollbacks,
     commits |-> commits]

\* what NewGenesisBlock returns: (block, err), and the genesis block object
\* as the call left it
GenesisReturn(blk, err, gb) == [block |-> blk, err |-> err, gb |-> gb]

\* the return after genesisBlock.rollback() (lines 232-233, 237-238, 242-243,
\* 247-248)
GenesisRollback(gb, err) ==
    GenesisReturn(None, err,
                  [gb EXCEPT !.tb = rollback(gb.tb), !.rollbacks = @ + 1])

\* NewGenesisBlock from the state root to the return (lines 251-262)
GenesisSeal(gb, e) ==
    IF e.fault = "stateRoot" THEN GenesisReturn(None, ErrStorage, gb)
    ELSE IF e.fault = "consensusRoot" THEN GenesisReturn(None, ErrStorage, gb)
    ELSE GenesisReturn(Some(gb.tb.state), Nil,
                       [gb EXCEPT !.sealed = TRUE, !.tb = commit(gb.tb),
                                  !.commits = @ + 1])

\* the credit of one token-distribution entry (lines 245-249); a nil error
\* lets the loop go on with the credited state
GenesisCredit(gb, credit) ==
    IF credit.err # Nil THEN GenesisRollback(gb, credit.err)
    ELSE GenesisReturn(None, Nil, [gb EXCEPT !.tb.state = credit.block])

\* one iteration of the loop over conf.TokenDistribution (lines 225-249);
\* fails tells whether the account lookup of this entry fails
GenesisEntry(gb, v, fails) ==
    LET addr == AddressParse(v.address) IN
    IF addr.err # Nil THEN GenesisRollback(gb, addr.err)
    ELSE LET acc == GetOrCreateUserAccount(gb.tb.state, addr.addr, fails)
             txsBalance == NewUint128FromString(v.value)
         IN
         IF acc.err # Nil THEN GenesisRollback(gb, acc.err)
         ELSE IF txsBalance.err # Nil THEN GenesisRollback(gb, txsBalance.err)
         ELSE GenesisCredit([gb EXCEPT !.tb.state = acc.block],
                            AddBalance(acc.block, addr.addr, txsBalance.v))

\* the loop over conf.TokenDistribution from entry i on, then the sealing
RECURSIVE GenesisDistribute(_, _, _, _)
GenesisDistribute(gb, entries, i, e) ==
    IF i > Len(entries) THEN GenesisSeal(gb, e)
    ELSE LET r == GenesisEntry(gb, entries[i], e.fault = "getAccount" /\ e.at = i) IN
         IF r.err # Nil THEN r
         ELSE GenesisDistribute(r.gb, entries, i + 1, e)

\* the state of a chain without blocks
EmptyState ==
    [accounts |-> {}, balance |-> [x \in Addr |-> 0], contracts |-> {},
     events |-> <<>>, coinbase |-> Coinbase]

\* NewGenesisBlock(conf, chain); a nil argument is the fault "nilConf"
NewGenesisBlock(conf, e) ==
    LET gb == GenesisBlock(Scoped(EmptyState), FALSE, 0, 0, 0) IN
    IF e.fault = "nilConf" THEN GenesisReturn(None, ErrNilArgument, gb)
    ELSE IF e.fault \in {"newAccountState", "newTxsTrie", "newEventsTrie", "genesisState"}
    THEN GenesisReturn(None, ErrStorage, gb)
    ELSE GenesisDistribute([gb EXCEPT !.tb = begin(gb.tb), !.begins = 1],
                           conf.tokenDistribution, 1, e)

\* token-distribution entries of a configuration: an address string and a
\* decimal value string
ConfAddresses == {"a", "b", "not an address"}
ConfValues == {<<1>>, Uint128String(MaxUint128), <<NotADigit>>}
ConfEntries == [address : ConfAddresses, value : ConfValues]

\* the sequences over S of length at most n
SeqsUpTo(S, n) == UNION {[1..k -> S] : k \in 0..n}

ChainIDsOfConf == {1}

GenesisConfs ==
    [chainID : ChainIDsOfConf, dynasty : {<<"a">>},
     tokenDistribution : SeqsUpTo(ConfEntries, MaxEntries)]

\* at most one collaborator call fails per NewGenesisBlock call
GenesisFaults == {"none", "nilConf", "newAccountState", "newTxsTrie", "newEventsTrie",
                  "genesisState", "stateRoot", "consensusRoot"}

GenesisEnvironments(conf) ==
    [fault : GenesisFaults, at : {0}]
    \cup [fault : {"getAccount"}, at : 1..Len(conf.tokenDistribution)]

InitGenesis ==
    /\ pc = "ready"
    /\ block = EmptyState
    /\ pre = block
    /\ tx \in GenesisConfs
    /\ env = [fault |-> "none", at |-> 0]
    /\ out = <<>>

\* a caller runs NewGenesisBlock(conf, chain); tx holds the configuration
CallNewGenesisBlock ==
    /\ pc = "ready"
    /\ \E e \in GenesisEnvironments(tx) :
        /\ env' = e
        /\ out' = NewGenesisBlock(tx, e)
        /\ block' = IF out'.err = Nil THEN out'.block[1] ELSE block
    /\ pc' = "returned"
    /\ UNCHANGED <<pre, tx>>

NextGenesis == CallNewGenesisBlock

SpecGenesis == InitGenesis /\ [][NextGenesis]_vars

\* NewGenesisBlock returned
GenesisReturned == pc = "returned" /\ env.fault # "nilConf"

\* C25: in NewGenesisBlock the scope opened by begin is closed by exactly one
\* rollback or commit on every exit path: rollback when a token-distribution
\* entry fails or when computing a state or consensus root fails, commit only
\* after every entry was applied and the block was sealed; no path returns
\* with the scope still open, and an error never returns a block.
C25_ScopeClosedExactlyOnce ==
    GenesisReturned =>
        /\ out.gb.begins = 1 =>
               /\ out.gb.rollbacks + out.gb.commits = 1
               /\ out.gb.tb.saved = <<>>
        /\ out.gb.begins = 0 => out.gb.rollbacks = 0 /\ out.gb.commits = 0
        /\ (out.gb.begins = 1 /\ out.err # Nil) => out.gb.rollbacks = 1
        /\ out.gb.commits = 1 => out.err = Nil /\ out.gb.sealed
        /\ out.err # Nil => out.block = None

\* ------------------------------------------------------------------------
\* CheckGenesisConfByDB
\* ------------------------------------------------------------------------

ErrGenesisNotEqualChainIDInDB == "ErrGenesisNotEqualChainIDInDB"
ErrGenesisNotEqualDynastyLenInDB == "ErrGenesisNotEqualDynastyLenInDB"
ErrGenesisNotEqualTokenLenInDB == "ErrGenesisNotEqualTokenLenInDB"
ErrGenesisNotEqualDynastyInDB == "ErrGenesisNotEqualDynastyInDB"
ErrGenesisNotEqualTokenInDB == "ErrGenesisNotEqualTokenInDB"

\* the inner loops of CheckGenesisConfByDB: some element of list equals x
\* (for distribution entries: same address and same value string)
Contains(list, x) == \E i \in 1..Len(list) : list[i] = x

\* the outer loops of CheckGenesisConfByDB: every element of conf is in db
AllContained(conf, db) == \A i \in 1..Len(conf) : Contains(db, conf[i])

\* CheckGenesisConfByDB(pGenesisDB, pGenesis); pGenesisDB is None (nil) or
\* Some(genesis)
CheckGenesisConfByDB(pGenesisDB, pGenesis) ==
    IF pGenesisDB = None THEN Nil
    ELSE LET db == pGenesisDB[1] IN
         IF pGenesis.chainID # db.chainID THEN ErrGenesisNotEqualChainIDInDB
         ELSE IF Len(pGenesis.dynasty) # Len(db.dynasty)
         THEN ErrGenesisNotEqualDynastyLenInDB
         ELSE IF Len(pGenesis.tokenDistribution) # Len(db.tokenDistribution)
         THEN ErrGenesisNotEqualTokenLenInDB
         ELSE IF ~AllContained(pGenesis.dynasty, db.dynasty)
         THEN ErrGenesisNotEqualDynastyInDB
         ELSE IF ~AllContained(pGenesis.tokenDistribution, db.tokenDistribution)
         THEN ErrGenesisNotEqualTokenInDB
         ELSE Nil

\* genesis configurations to compare: two chain ids, dynasties over two
\* members, distributions over two entries of one address
CheckedEntries == [address : {"a"}, value : {<<1>>, <<2>>}]

CheckedConfs ==
    [chainID : ChainIDs, dynasty : SeqsUpTo({"a", "b"}, MaxEntries),
     tokenDistribution : SeqsUpTo(CheckedEntries, MaxEntries)]

\* tx holds the configured genesis, env the stored one
InitCheck ==
    /\ pc = "ready"
    /\ block = EmptyState
    /\ pre = block
    /\ tx \in CheckedConfs
    /\ env \in [db : {None} \cup {Some(g) : g \in CheckedConfs}]
    /\ out = <<>>

\* a caller runs CheckGenesisConfByDB(pGenesisDB, pGenesis)
CallCheckGenesisConfByDB ==
    /\ pc = "ready"
    /\ out' = [err |-> CheckGenesisConfByDB(env.db, tx)]
    /\ pc' = "returned"
    /\ UNCHANGED <<block, pre, tx, env>>

NextCheck == CallCheckGenesisConfByDB

SpecCheck == InitCheck /\ [][NextCheck]_vars

\* the number of times x occurs in list
Occurrences(list, x) == Cardinality({i \in 1..Len(list) : list[i] = x})

\* the same elements with the same multiplicities
SameMultiset(s, t) ==
    /\ Len(s) = Len(t)
    /\ \A i \in 1..Len(s) : Occurrences(s, s[i]) = Occurrences(t, s[i])

\* CheckGenesisConfByDB returned for a stored genesis that is not nil
Checked == pc = "returned" /\ env.db # None

\* C26: given a non-nil stored genesis, CheckGenesisConfByDB returns nil iff
\* the stored and the configured genesis are equal: same chain id, the same
\* dynasty members with the same multiplicities and the same (address, value)
\* entries with the same multiplicities; any difference, also one hidden by
\* duplicate entries, yields an ErrGenesisNotEqual* error.
C26_NilIffEqual ==
    Checked =>
        (out.err = Nil <=>
            /\ tx.chainID = env.db[1].chainID
            /\ SameMultiset(tx.dynasty, env.db[1].dynasty)
            /\ SameMultiset(tx.tokenDistribution, env.db[1].tokenDistribution))

====
